---- MODULE Spec2Model ----
(***************************************************************************)
(* Model of build.py, the build-and-package script of Obliteration.       *)
(*                                                                         *)
(* main() builds the kernel and the GUI with cargo(), prepares the output  *)
(* directory, exports both artifacts with the exporter of the host OS and  *)
(* optionally launches the exported GUI.  cargo() asks the toolchain for   *)
(* the package id, starts the build and reads its JSON lines one by one.   *)
(*                                                                         *)
(* The state is the script's variables (main's and cargo's locals, the     *)
(* position pc), its environment (the file system, the host) and what it   *)
(* did to the outside (the processes it launched, stderr, exit status).    *)
(* A Python value that may be None is a sequence of length 0 or 1.         *)
(***************************************************************************)
EXTENDS Integers, Sequences, FiniteSets, TLC

None == <<>>
Some(x) == <<x>>
Val(o) == o[1]

(***************************************************************************)
(* Bounds.  MaxLines is the longest output a build child writes in a full  *)
(* run of main(), MaxStream the longest one when cargo() is checked on     *)
(* its own.                                                                *)
(***************************************************************************)
MaxLines == 2
MaxStream == 4

(***************************************************************************)
(* Characters and names.  A file name is a string; Spell gives its         *)
(* characters, so that str.capitalize() and the case folding of a          *)
(* case-insensitive file system are computed character by character.       *)
(***************************************************************************)
LowerLetters ==
  << "a","b","c","d","e","f","g","h","i","j","k","l","m",
     "n","o","p","q","r","s","t","u","v","w","x","y","z" >>
UpperLetters ==
  << "A","B","C","D","E","F","G","H","I","J","K","L","M",
     "N","O","P","Q","R","S","T","U","V","W","X","Y","Z" >>

\* str.upper() and str.lower() on one character.
upper(c) ==
  IF \E i \in 1..26 : LowerLetters[i] = c
  THEN UpperLetters[CHOOSE i \in 1..26 : LowerLetters[i] = c]
  ELSE c
lower(c) ==
  IF \E i \in 1..26 : UpperLetters[i] = c
  THEN LowerLetters[CHOOSE i \in 1..26 : UpperLetters[i] = c]
  ELSE c

Spell ==
     ("dist"              :> <<"d","i","s","t">>)
  @@ ("out"               :> <<"o","u","t">>)
  @@ ("target"            :> <<"t","a","r","g","e","t">>)
  @@ ("obkrnl"            :> <<"o","b","k","r","n","l">>)
  @@ ("obliteration"      :> <<"o","b","l","i","t","e","r","a","t","i","o","n">>)
  @@ ("Obliteration"      :> <<"O","b","l","i","t","e","r","a","t","i","o","n">>)
  @@ ("Obliteration.app"  :> <<"O","b","l","i","t","e","r","a","t","i","o","n",".","a","p","p">>)
  @@ ("Contents"          :> <<"C","o","n","t","e","n","t","s">>)
  @@ ("MacOS"             :> <<"M","a","c","O","S">>)
  @@ ("Resources"         :> <<"R","e","s","o","u","r","c","e","s">>)
  @@ ("obliteration.icns" :> <<"o","b","l","i","t","e","r","a","t","i","o","n",".","i","c","n","s">>)
  @@ ("bundle.icns"       :> <<"b","u","n","d","l","e",".","i","c","n","s">>)
  @@ ("Info.plist"        :> <<"I","n","f","o",".","p","l","i","s","t">>)
  @@ ("bin"               :> <<"b","i","n">>)
  @@ ("share"             :> <<"s","h","a","r","e">>)
  @@ ("old.txt"           :> <<"o","l","d",".","t","x","t">>)
  @@ ("_CodeSignature"    :> <<"_","C","o","d","e","S","i","g","n","a","t","u","r","e">>)
  @@ ("CodeResources"     :> <<"C","o","d","e","R","e","s","o","u","r","c","e","s">>)
Names == DOMAIN Spell
Unspell(cs) == CHOOSE n \in Names : Spell[n] = cs

\* str.capitalize(): the first character upper-cased, the rest lower-cased.
capitalizeChars(cs) ==
  [i \in 1..Len(cs) |-> IF i = 1 THEN upper(cs[i]) ELSE lower(cs[i])]
capitalize(n) == Unspell(capitalizeChars(Spell[n]))
foldChars(cs) == [i \in 1..Len(cs) |-> lower(cs[i])]

(***************************************************************************)
(* Paths.  A path is the sequence of its components; <<>> is the current   *)
(* directory, in which the script runs.                                    *)
(***************************************************************************)
join(p, n) == Append(p, n)
dirname(p) == SubSeq(p, 1, Len(p) - 1)
basename(p) == p[Len(p)]

(***************************************************************************)
(* Text.  A package id is the sequence of its characters, so that          *)
(* urlparse() and the slice of line 25 are computed on the characters.     *)
(***************************************************************************)
Digits == {"0","1","2","3","4","5","6","7","8","9"}
Letters == {LowerLetters[i] : i \in 1..26} \cup {UpperLetters[i] : i \in 1..26}
\* urllib.parse.scheme_chars
scheme_chars == Letters \cup Digits \cup {"+", "-", "."}
\* urllib.parse.uses_params: the schemes whose paths carry parameters after
\* a ; (the scheme of a URL without one is the empty text).
uses_params ==
  { <<>>, <<"f","t","p">>, <<"h","d","l">>,
    <<"p","r","o","s","p","e","r","o">>, <<"h","t","t","p">>,
    <<"i","m","a","p">>, <<"h","t","t","p","s">>, <<"s","h","t","t","p">>,
    <<"r","t","s","p">>, <<"r","t","s","p","s">>, <<"r","t","s","p","u">>,
    <<"s","i","p">>, <<"s","i","p","s">>, <<"m","m","s">>,
    <<"s","f","t","p">>, <<"t","e","l">> }

\* The value of Op at v, with v evaluated once.
Let(v, Op(_)) == CHOOSE r \in {Op(x) : x \in {v}} : TRUE

\* str.find(c, start): the first place of c at or after start, 0 if none.
find(s, c, start) ==
  IF \E i \in start..Len(s) : s[i] = c
  THEN CHOOSE i \in start..Len(s) : s[i] = c /\ \A j \in start..(i - 1) : s[j] # c
  ELSE 0
\* str.rfind(c): the last place of c, 0 if none.
rfind(s, c) ==
  IF \E i \in 1..Len(s) : s[i] = c
  THEN CHOOSE i \in 1..Len(s) : s[i] = c /\ \A j \in (i + 1)..Len(s) : s[j] # c
  ELSE 0
\* s[i:] and s[:i] of Python, on places counted from 1.
from(s, i) == SubSeq(s, i, Len(s))
upto(s, i) == SubSeq(s, 1, i)
\* s.split(c, 1) where c is in s: the text before the first c and after it.
split(s, c) ==
  Let(find(s, c, 1), LAMBDA i :
    IF i > 0 THEN [head |-> upto(s, i - 1), tail |-> from(s, i + 1)]
             ELSE [head |-> s, tail |-> <<>>])

\* urlsplit, the scheme: the text before the first : when it begins with a
\* letter and holds scheme characters only, in lower case.
splitscheme(url) ==
  Let(find(url, ":", 1), LAMBDA i :
    IF /\ i > 1
       /\ url[1] \in Letters
       /\ \A j \in 1..(i - 1) : url[j] \in scheme_chars
    THEN [scheme |-> foldChars(upto(url, i - 1)), rest |-> from(url, i + 1)]
    ELSE [scheme |-> <<>>, rest |-> url])

\* urllib.parse._splitnetloc(url, 2) where url begins with //: the text up
\* to the first of /, ? and #.
splitnetloc(url) ==
  IF Len(url) >= 2 /\ upto(url, 2) = <<"/", "/">>
  THEN Let({find(url, c, 3) : c \in {"/", "?", "#"}} \ {0}, LAMBDA ends :
         Let(IF ends = {} THEN Len(url) + 1
             ELSE CHOOSE e \in ends : \A o \in ends : e <= o, LAMBDA delim :
           [netloc |-> SubSeq(url, 3, delim - 1), rest |-> from(url, delim)]))
  ELSE [netloc |-> <<>>, rest |-> url]

\* urllib.parse.urlsplit: scheme, netloc, path, query and fragment.
urlsplit(url) ==
  Let(splitscheme(url), LAMBDA a :
    Let(splitnetloc(a.rest), LAMBDA b :
      Let(split(b.rest, "#"), LAMBDA f :
        Let(split(f.head, "?"), LAMBDA q :
          [scheme |-> a.scheme, netloc |-> b.netloc, path |-> q.head,
           query |-> q.tail, fragment |-> f.tail]))))

\* urllib.parse._splitparams: the parameters after the first ; of the last
\* path segment.
splitparams(path) ==
  Let(rfind(path, "/"), LAMBDA slash :
    Let(find(path, ";", IF slash > 0 THEN slash ELSE 1), LAMBDA semi :
      IF semi > 0 THEN [path |-> upto(path, semi - 1), params |-> from(path, semi + 1)]
                  ELSE [path |-> path, params |-> <<>>]))

\* urllib.parse.urlparse: urlsplit, and the parameters of the path for the
\* schemes that have them.
urlparse(url) ==
  Let(urlsplit(url), LAMBDA r :
    Let(IF r.scheme \in uses_params THEN splitparams(r.path)
        ELSE [path |-> r.path, params |-> <<>>], LAMBDA p :
      [scheme |-> r.scheme, netloc |-> r.netloc, path |-> p.path,
       params |-> p.params, query |-> r.query, fragment |-> r.fragment]))

(***************************************************************************)
(* State.                                                                  *)
(***************************************************************************)
VARIABLES
  system,         \* platform.system()
  caseSensitive,  \* whether the file system tells Obliteration from obliteration
  checkout,       \* the URL of the checkout, as cargo pkgid prints it
  fs,             \* the file system: path |-> "dir" or a file's content
  fs0,            \* the file system when the script started
  args,           \* the parsed command line: release, root, debug
  cap,            \* the number of lines a build child writes at most
  pc,             \* the statement main() or cargo() is at
  exitCode,       \* None while the script runs, then its exit status
  stderr,         \* what the script printed to sys.stderr
  launched,       \* the child processes started, in order
  running,        \* the children started with Popen that are alive: places in launched
  m,              \* main: platform.machine()
  kern,           \* main: the kernel artifact
  gui,            \* main: the GUI artifact, then (line 172) the exported path
  dest,           \* main: the output directory
  before,         \* the file system when the exporter started
  signed,         \* whether codesign was run and returned 0
  req,            \* cargo: the arguments of the call
  id,             \* cargo: the package id
  artifact,       \* cargo: the captured artifact (None: not assigned yet)
  consumed        \* cargo: the lines read from the child's stdout so far

vars ==
  << system, caseSensitive, checkout, fs, fs0, args, cap, pc, exitCode, stderr, launched,
     running, m, kern, gui, dest, before, signed, req, id, artifact, consumed >>

hostVars == << system, caseSensitive, checkout, fs0, args, cap >>
mainVars == << m, kern, gui, dest, before, signed >>
cargoVars == << req, id, artifact, consumed >>

(***************************************************************************)
(* The file system.  A name is looked up exactly on a case-sensitive file  *)
(* system and up to the case of its letters on a case-insensitive one.     *)
(***************************************************************************)
Dir == "dir"

SameName(a, b) ==
  IF caseSensitive THEN a = b ELSE foldChars(Spell[a]) = foldChars(Spell[b])
SamePath(p, q) ==
  /\ Len(p) = Len(q)
  /\ \A i \in 1..Len(p) : SameName(p[i], q[i])
Under(d, p) == Len(d) < Len(p) /\ SamePath(d, SubSeq(p, 1, Len(d)))

Entry(f, p) == {k \in DOMAIN f : SamePath(k, p)}
Key(f, p) == CHOOSE k \in Entry(f, p) : TRUE
\* os.path.exists, os.path.isdir, os.path.isfile
exists(f, p) == p = <<>> \/ Entry(f, p) # {}
isdir(f, p) == p = <<>> \/ (Entry(f, p) # {} /\ f[Key(f, p)] = Dir)
isfile(f, p) == p # <<>> /\ Entry(f, p) # {} /\ f[Key(f, p)] # Dir
Content(f, p) == f[Key(f, p)]

Ok(f) == [ok |-> TRUE, fs |-> f]
Failed(f) == [ok |-> FALSE, fs |-> f]

\* os.mkdir(p): FileExistsError if p exists, FileNotFoundError without parent.
mkdir(f, p) ==
  IF ~exists(f, p) /\ isdir(f, dirname(p))
  THEN Ok(f @@ (p :> Dir))
  ELSE Failed(f)

\* A move (shutil.move): the file written at dst is taken away from src.
copyfile_Move(f, src, dst) ==
  IF /\ isfile(f, src)
     /\ isdir(f, dirname(dst))
     /\ ~isdir(f, dst)
     /\ ~SamePath(src, dst)
  THEN LET k == IF exists(f, dst) THEN Key(f, dst) ELSE dst
           keep == (DOMAIN f \ {Key(f, src)}) \cup {k}
       IN  Ok([q \in keep |-> IF q = k THEN Content(f, src) ELSE f[q]])
  ELSE Failed(f)

\* shutil.copyfile(src, dst): dst names the file to write.  It raises (and
\* writes nothing) if src is no file, if dst is a directory or the same
\* file as src, or if dst's directory does not exist.
copyfile(f, src, dst) ==
  IF /\ isfile(f, src)
     /\ isdir(f, dirname(dst))
     /\ ~isdir(f, dst)
     /\ ~SamePath(src, dst)
  THEN LET k == IF exists(f, dst) THEN Key(f, dst) ELSE dst
       IN  Ok([q \in DOMAIN f \cup {k} |-> IF q = k THEN Content(f, src) ELSE f[q]])
  ELSE Failed(f)

\* shutil.copy(src, dst): into dst when dst is a directory.  src is a JSON
\* value: null (None) raises TypeError.
copy(f, src, dst) ==
  IF src = None THEN Failed(f)
  ELSE IF isdir(f, dst)
       THEN copyfile(f, Val(src), join(dst, basename(Val(src))))
       ELSE copyfile(f, Val(src), dst)

\* A removal of the directory alone, as os.rmdir names it.
rmtree_NotRecursive(f, p) ==
  IF p # <<>> /\ isdir(f, p)
  THEN Ok([q \in {k \in DOMAIN f : ~SamePath(k, p)} |-> f[q]])
  ELSE Failed(f)

\* shutil.rmtree(p): p and everything below it.
rmtree(f, p) ==
  IF p # <<>> /\ isdir(f, p)
  THEN Ok([q \in {k \in DOMAIN f : ~SamePath(k, p) /\ ~Under(p, k)} |-> f[q]])
  ELSE Failed(f)

\* One file-system statement of an exporter, and a run of statements that
\* stops at the first one that raises.
Step(f, s) ==
  CASE s.op = "mkdir" -> mkdir(f, s.path)
    [] s.op = "copy" -> copy(f, s.src, s.dst)
    [] s.op = "copyfile" -> copyfile(f, s.src, s.dst)
    [] s.op = "split" -> IF s.src = None THEN Failed(f) ELSE Ok(f)

RECURSIVE RunSteps(_, _)
RunSteps(f, steps) ==
  IF steps = <<>> THEN Ok(f)
  ELSE LET r == Step(f, Head(steps))
       IN  IF r.ok THEN RunSteps(r.fs, Tail(steps)) ELSE r

(***************************************************************************)
(* The environment: the host, the files, the toolchain.                    *)
(***************************************************************************)
Systems == {"Darwin", "Linux", "Windows", "FreeBSD"}
\* What platform.machine() returns on the hosts of each system.
MachinesOf(os) ==
  CASE os = "Darwin" -> {"arm64", "x86_64"}
    [] os = "Linux" -> {"aarch64", "x86_64", "riscv64"}
    [] os = "Windows" -> {"AMD64", "ARM64"}
    [] os = "FreeBSD" -> {"arm64", "amd64"}
DebugAddr == "127.0.0.1:1234"

Dist == <<"dist">>
Out == <<"out">>
KernExe == <<"target", "obkrnl">>
GuiExe == <<"target", "obliteration">>
StaleExe == <<"target", "Obliteration">>

BuildDir == <<"target">>
\* A fresh checkout: the sources, and no build directory.
Workspace ==
     (<<"bundle.icns">> :> "icon")
  @@ (<<"Info.plist">> :> "manifest")
\* What the toolchain writes at the path of an executable.
Binary(exe) == IF exe = KernExe THEN "obkrnl binary" ELSE "gui binary"
\* The build directory an earlier run left: both executables are built.
Rebuilt ==
     (BuildDir :> Dir)
  @@ (KernExe :> Binary(KernExe))
  @@ (GuiExe :> Binary(GuiExe))
\* An older binary of the GUI under its capitalized name, which only a
\* case-sensitive file system can hold beside the current one.
Stale == (StaleExe :> "stale gui binary")
\* What an earlier run or the user left in the output directory d.
Leftovers(d) ==
     (d :> Dir)
  @@ (join(d, "old.txt") :> "old file")
  @@ (join(d, "share") :> Dir)
  @@ (join(join(d, "share"), "old.txt") :> "old file")

\* Where the checkout can be, as a URL: /src, C:\src (written by a current
\* and by an older cargo) and \\host\src.
UnixCheckout == <<"p","a","t","h","+","f","i","l","e",":","/","/","/","s","r","c">>
DriveCheckout ==
  <<"p","a","t","h","+","f","i","l","e",":","/","/","/","C",":","/","s","r","c">>
OldDriveCheckout == <<"f","i","l","e",":","/","/","/","C",":","/","s","r","c">>
HostCheckout ==
  <<"p","a","t","h","+","f","i","l","e",":","/","/","h","o","s","t","/","s","r","c">>
Checkouts == {UnixCheckout, DriveCheckout, OldDriveCheckout, HostCheckout}

\* cargo pkgid -p <package>: the package id of a workspace member, the URL
\* of its directory and its name and version.
PkgId(package) ==
  checkout \o
    (CASE package = "obkrnl" ->
            <<"/","k","e","r","n","e","l","#","o","b","k","r","n","l","@","0",".","1",".","0">>
       [] package = "gui" -> <<"/","g","u","i","#","0",".","1",".","0">>)

\* The lines a build child can write: JSON records and one that is no JSON.
Artifact(pid, exe) ==
  [reason |-> "compiler-artifact", package_id |-> pid, executable |-> exe]
Finished(success) == [reason |-> "build-finished", success |-> success]
Message(pid) == [reason |-> "compiler-message", package_id |-> pid]
Garbage == [raw |-> "warning: not a JSON line"]

ExeOf(package) == IF package = "obkrnl" THEN KernExe ELSE GuiExe
Other(package) == IF package = "obkrnl" THEN "gui" ELSE "obkrnl"
\* The next thing a build child writes on its way to the executable exe:
\* the build directory if there is none, then the executable.  Of all the
\* files a build leaves in the build directory the model keeps these.
Built(f, exe) ==
  IF isdir(f, dirname(exe)) THEN f @@ (exe :> Binary(exe)) ELSE mkdir(f, dirname(exe)).fs
\* The compiler-artifact records of a package a build child can write: of a
\* target that is no executable (a library, a build script: executable is
\* null), and of the package's executable once the file is there.  A record
\* keeps the keys the script reads (lines 45, 52 and 70-74, 87-91, 104-107).
Reported(package) ==
  { Artifact(PkgId(package), None) }
  \cup
  (IF isfile(fs, ExeOf(package))
   THEN {Artifact(PkgId(package), Some(ExeOf(package)))}
   ELSE {})
\* Those of the package being built and of another package.
ArtifactLines(package) == Reported(package) \cup Reported(Other(package))

(***************************************************************************)
(* main(), lines 135-155: the two build requests.                          *)
(***************************************************************************)
Request(package, toolchain, target, release, extra) ==
  [package |-> package, toolchain |-> toolchain, target |-> target,
   release |-> release, args |-> extra]

\* A chain of tests whose last branch takes every other machine.
Supported_NoElse(machine) == TRUE

Supported(machine) == machine \in {"aarch64", "arm64", "x86_64", "AMD64"}

KernelRequest(machine, release) ==
  IF machine = "aarch64" \/ machine = "arm64"
  THEN Request("obkrnl", Some("nightly"), Some("aarch64-unknown-none-softfloat"),
               release, Some(<<"-Z", "build-std=core,alloc">>))
  ELSE Request("obkrnl", None, Some("x86_64-unknown-none"), release, None)

GuiRequest(release) ==
  Request("gui", None, None, release, Some(<<"--bin", "obliteration">>))

(***************************************************************************)
(* cargo(), lines 13-39: the command lines.                                *)
(***************************************************************************)
Channel(toolchain) == CASE toolchain = "nightly" -> "+nightly"

BaseCmd(r) ==
  <<"cargo">> \o (IF r.toolchain # None THEN <<Channel(Val(r.toolchain))>> ELSE <<>>)

PkgIdCmd(r) == BaseCmd(r) \o <<"pkgid", "-p", r.package>>

BuildCmd(r) ==
  BaseCmd(r) \o <<"build", "-p", r.package>>
    \o (IF r.target # None THEN <<"--target", Val(r.target)>> ELSE <<>>)
    \o (IF r.release THEN <<"-r">> ELSE <<>>)
    \o (IF r.args # None THEN Val(r.args) ELSE <<>>)
    \o <<"--message-format", "json-render-diagnostics">>

(***************************************************************************)
(* Init: the script is about to run main() on some host, with some         *)
(* command line, in a checkout whose output directory is absent, empty or  *)
(* holds leftovers.                                                        *)
(***************************************************************************)
OutputDir(a) == IF a.root = None THEN Dist ELSE Val(a.root)

\* The build directory is absent (a fresh checkout) or as an earlier run
\* left it, on a Mac with or without the older binary.  The output
\* directory is absent or holds leftovers; one given with --root may also
\* be empty.  --release changes the build command and nothing else (lines
\* 33-34): it is tried in a checkout built before, without an output
\* directory.
InitFs(a, os, cs) ==
  IF a.release
  THEN { Workspace @@ Rebuilt }
  ELSE { Workspace @@ built @@ out :
           built \in {<<>>, Rebuilt}
                       \cup (IF os = "Darwin" /\ cs THEN {Rebuilt @@ Stale} ELSE {}),
           out \in {<<>>, Leftovers(OutputDir(a))}
                     \cup (IF a.root # None THEN {(OutputDir(a) :> Dir)} ELSE {}) }

InitHost ==
  /\ system \in Systems
  /\ caseSensitive \in (IF system = "Darwin" THEN BOOLEAN ELSE {system # "Windows"})
  /\ checkout = (IF system = "Windows" THEN DriveCheckout ELSE UnixCheckout)
  /\ args \in [release : BOOLEAN, root : {None, Some(Out)}, debug : {None, Some(DebugAddr)}]
  /\ fs0 \in InitFs(args, system, caseSensitive)

InitRun ==
  /\ fs = fs0
  /\ pc = "main"
  /\ exitCode = None
  /\ stderr = <<>>
  /\ launched = <<>>
  /\ running = {}
  /\ m = None
  /\ kern = None
  /\ gui = None
  /\ dest = None
  /\ before = None
  /\ signed = FALSE
  /\ req = None
  /\ id = None
  /\ artifact = None
  /\ consumed = <<>>

Init == InitHost /\ cap = MaxLines /\ InitRun

(***************************************************************************)
(* Ways a statement ends the script: sys.exit(1), and an exception nobody  *)
(* catches (the interpreter prints the traceback and exits with status 1). *)
(***************************************************************************)
Exit(status) == exitCode' = Some(status)
Raise == exitCode' = Some(1)
Running == exitCode = None

\* subprocess.run(cmd, check=True): the child runs and is waited for.
Ran(kind, argv, returncode) ==
  [kind |-> kind, argv |-> argv, returncode |-> Some(returncode)]
\* Popen(cmd, cwd=path): the child is started in directory path.
Started(kind, argv, cwd) ==
  [kind |-> kind, argv |-> argv, cwd |-> cwd, returncode |-> None]

(***************************************************************************)
(* main(), lines 135-152: the kernel request of the host's architecture.   *)
(***************************************************************************)
\* The old dist removed at the start of main(), before the builds.
DetectArch_CleansFirst ==
  /\ Running /\ pc = "main"
  /\ fs' = (IF args.root = None /\ exists(fs, Dist) THEN rmtree(fs, Dist).fs ELSE fs)
  /\ \E machine \in MachinesOf(system) :
       /\ m' = Some(machine)
       /\ IF Supported(machine)
          THEN /\ req' = Some(KernelRequest(machine, args.release))
               /\ pc' = "pkgid"
               /\ UNCHANGED << exitCode, stderr >>
          ELSE /\ stderr' = Append(stderr, <<"Architecture", machine, "is not supported.">>)
               /\ Exit(1)
               /\ UNCHANGED << req, pc >>
  /\ UNCHANGED << hostVars, launched, running, kern, gui, dest, before, signed,
                  id, artifact, consumed >>

DetectArch ==
  /\ Running /\ pc = "main"
  /\ \E machine \in MachinesOf(system) :
       /\ m' = Some(machine)
       /\ IF Supported(machine)
          THEN /\ req' = Some(KernelRequest(machine, args.release))
               /\ pc' = "pkgid"
               /\ UNCHANGED << exitCode, stderr >>
          ELSE /\ stderr' = Append(stderr, <<"Architecture", machine, "is not supported.">>)
               /\ Exit(1)
               /\ UNCHANGED << req, pc >>
  /\ UNCHANGED << hostVars, fs, launched, running, kern, gui, dest, before, signed,
                  id, artifact, consumed >>

(***************************************************************************)
(* cargo(), line 18: the package id.  run raises FileNotFoundError when    *)
(* cargo cannot be executed (no child is started then), and check=True     *)
(* raises when the child fails.                                            *)
(***************************************************************************)
QueryPkgId ==
  /\ Running /\ pc = "pkgid"
  /\ \E started \in BOOLEAN :
       IF started
       THEN \E returncode \in {0, 101} :
              /\ launched' = Append(launched, Ran("pkgid", PkgIdCmd(Val(req)), returncode))
              /\ IF returncode = 0
                 THEN /\ id' = Some(PkgId(Val(req).package))
                      /\ pc' = "popen"
                      /\ UNCHANGED exitCode
                 ELSE /\ Raise
                      /\ UNCHANGED << id, pc >>
       ELSE /\ Raise
            /\ UNCHANGED << launched, id, pc >>
  /\ UNCHANGED << hostVars, fs, stderr, running, mainVars, req, artifact, consumed >>

(***************************************************************************)
(* cargo(), lines 20-42: the build child is started in the directory of    *)
(* the package.                                                            *)
(***************************************************************************)
\* Lines 21-25: the path of the package id's URL, on Windows without its
\* first character.
PackagePath(os, ident) ==
  Let(urlparse(ident).path, LAMBDA path :
    IF os = "Windows" THEN from(path, 2) ELSE path)

\* Line 42: Popen raises (FileNotFoundError, NotADirectoryError) when the
\* directory is missing on the machine or cargo cannot be executed; no child
\* is started then.
StartBuild ==
  /\ Running /\ pc = "popen"
  /\ \E started \in BOOLEAN :
       IF started
       THEN /\ launched' = Append(launched,
                 Started("build", BuildCmd(Val(req)), PackagePath(system, Val(id))))
            /\ running' = running \cup {Len(launched) + 1}
            /\ pc' = "read"
            /\ UNCHANGED exitCode
       ELSE /\ Raise
            /\ UNCHANGED << launched, running, pc >>
  /\ UNCHANGED << hostVars, fs, stderr, mainVars, cargoVars >>

(***************************************************************************)
(* The build child, from line 42 until it is waited for: it writes into    *)
(* the build directory while the script reads its output.                  *)
(***************************************************************************)
\* The package of a build command: the argument after -p.
PackageOf(argv) == argv[(CHOOSE j \in 1..Len(argv) : argv[j] = "-p") + 1]

CargoBuild ==
  /\ \E child \in running :
       LET exe == ExeOf(PackageOf(launched[child].argv)) IN
       /\ ~isfile(fs, exe)
       /\ fs' = Built(fs, exe)
  /\ UNCHANGED << hostVars, pc, exitCode, stderr, launched, running, mainVars,
                  cargoVars >>

(***************************************************************************)
(* cargo(), lines 43-53: one line of the child's output.  The loop is left *)
(* by break or at the end of the output (pc = "leave") and by sys.exit or   *)
(* an exception (pc = "unwind"); the child is still there then, until the  *)
(* with block has waited for it.                                           *)
(***************************************************************************)
CanRead == Running /\ pc = "read" /\ Len(consumed) < cap

\* Line 44: json.loads raises on a line that is no JSON.
Parses(line) == "raw" \notin DOMAIN line

\* A loop that leaves at build-finished without reading the success flag.
OnFinished_IgnoresSuccess(line) == "break"

\* Lines 46-50: what a build-finished record does to the loop.
OnFinished(line) == IF line.success THEN "break" ELSE "exit"

\* A comparison of line 52 turned around, and one left out.
Capture_Mismatch(current, ident, line) ==
  IF line.package_id # ident THEN Some(line) ELSE current
Capture_Any(current, ident, line) == Some(line)

\* The first artifact of the package kept, the later ones ignored.
Capture_First(current, ident, line) ==
  IF line.package_id = ident /\ current = None THEN Some(line) ELSE current

\* Lines 51-53: the artifact after a compiler-artifact record.
Capture(current, ident, line) ==
  IF line.package_id = ident THEN Some(line) ELSE current

ReadGarbage ==
  /\ CanRead
  /\ ~Parses(Garbage)
  /\ consumed' = Append(consumed, Garbage)
  /\ pc' = "unwind"
  /\ UNCHANGED << hostVars, fs, exitCode, stderr, launched, running, mainVars,
                  req, id, artifact >>

\* A success that does not leave the loop: the reading goes on to the end
\* of the output.
ReadFinished_NoBreak ==
  /\ CanRead
  /\ \E success \in BOOLEAN :
       LET line == Finished(success) IN
       /\ Parses(line) /\ line.reason = "build-finished"
       /\ consumed' = Append(consumed, line)
       /\ pc' = (IF OnFinished(line) = "break" THEN pc ELSE "unwind")
  /\ UNCHANGED << hostVars, fs, exitCode, stderr, launched, running, mainVars,
                  req, id, artifact >>

ReadFinished ==
  /\ CanRead
  /\ \E success \in BOOLEAN :
       LET line == Finished(success) IN
       /\ Parses(line) /\ line.reason = "build-finished"
       /\ consumed' = Append(consumed, line)
       /\ pc' = (IF OnFinished(line) = "break" THEN "leave" ELSE "unwind")
  /\ UNCHANGED << hostVars, fs, exitCode, stderr, launched, running, mainVars,
                  req, id, artifact >>

ReadArtifact ==
  /\ CanRead
  /\ \E line \in ArtifactLines(Val(req).package) :
       /\ Parses(line) /\ line.reason = "compiler-artifact"
       /\ consumed' = Append(consumed, line)
       /\ artifact' = Capture(artifact, Val(id), line)
  /\ UNCHANGED << hostVars, fs, pc, exitCode, stderr, launched, running, mainVars,
                  req, id >>

ReadOther ==
  /\ CanRead
  /\ LET line == Message(PkgId(Val(req).package)) IN
       /\ Parses(line) /\ line.reason \notin {"build-finished", "compiler-artifact"}
       /\ consumed' = Append(consumed, line)
  /\ UNCHANGED << hostVars, fs, pc, exitCode, stderr, launched, running, mainVars,
                  req, id, artifact >>

\* The child closed its output without a build-finished record: the for
\* loop ends.
EndOfStream ==
  /\ Running /\ pc = "read"
  /\ pc' = "leave"
  /\ UNCHANGED << hostVars, fs, exitCode, stderr, launched, running, mainVars,
                  cargoVars >>

(***************************************************************************)
(* cargo(), line 42: the end of the with block.  Popen.__exit__ closes the *)
(* pipe and waits for the child; then the function goes on to line 55, or  *)
(* the SystemExit or the exception ends the script with status 1.          *)
(***************************************************************************)
\* A Popen used without with: nothing waits for the child.
Reaped_NoWait(alive, child) == alive

\* Popen.__exit__: the child has been waited for.
Reaped(alive, child) == alive \ {child}

Wait ==
  /\ Running /\ pc \in {"leave", "unwind"}
  /\ running' = Reaped(running, Len(launched))
  /\ IF pc = "leave"
     THEN pc' = "return" /\ UNCHANGED exitCode
     ELSE Exit(1) /\ UNCHANGED pc
  /\ UNCHANGED << hostVars, fs, stderr, launched, mainVars, cargoVars >>

(***************************************************************************)
(* cargo(), line 55, and the assignment in main (lines 139, 146, 155).     *)
(* Reading artifact raises UnboundLocalError if no line assigned it.       *)
(***************************************************************************)
\* artifact bound to None before the loop: line 55 would never raise.
Returns_Always(current) == TRUE

Returns(current) == current # None

Return ==
  /\ Running /\ pc = "return"
  /\ IF Returns(artifact)
     THEN /\ IF Val(req).package = "obkrnl"
             THEN /\ kern' = artifact
                  /\ req' = Some(GuiRequest(args.release))
                  /\ pc' = "pkgid"
                  /\ UNCHANGED gui
             ELSE /\ gui' = artifact
                  /\ req' = None
                  /\ pc' = "mkroot"
                  /\ UNCHANGED kern
          /\ id' = None /\ artifact' = None /\ consumed' = <<>>
          /\ UNCHANGED exitCode
     ELSE /\ Raise
          /\ UNCHANGED << pc, kern, gui, cargoVars >>
  /\ UNCHANGED << hostVars, fs, stderr, launched, running, m, dest, before, signed >>

(***************************************************************************)
(* main(), lines 157-166: the output directory.                            *)
(***************************************************************************)
\* --root was given: the directory is used as it is.
UseRoot ==
  /\ Running /\ pc = "mkroot"
  /\ args.root # None
  /\ dest' = args.root
  /\ pc' = "export"
  /\ UNCHANGED << hostVars, fs, exitCode, stderr, launched, running, m, kern, gui,
                  before, signed, cargoVars >>

\* Lines 160-164: the default directory is removed if it exists.
RemoveDist ==
  /\ Running /\ pc = "mkroot"
  /\ args.root = None
  /\ dest' = Some(Dist)
  /\ IF exists(fs, Dist)
     THEN LET r == rmtree(fs, Dist) IN
          /\ fs' = r.fs
          /\ IF r.ok THEN pc' = "mkdir" /\ UNCHANGED exitCode
                     ELSE Raise /\ UNCHANGED pc
     ELSE pc' = "mkdir" /\ UNCHANGED << fs, exitCode >>
  /\ UNCHANGED << hostVars, stderr, launched, running, m, kern, gui, before, signed,
                  cargoVars >>

\* Line 166: and created.
MakeDist ==
  /\ Running /\ pc = "mkdir"
  /\ LET r == mkdir(fs, Val(dest)) IN
     /\ fs' = r.fs
     /\ IF r.ok THEN pc' = "export" /\ UNCHANGED exitCode
                ELSE Raise /\ UNCHANGED pc
  /\ UNCHANGED << hostVars, stderr, launched, running, mainVars, cargoVars >>

(***************************************************************************)
(* The exporters: the statements each runs on the file system, and the     *)
(* path it returns.                                                        *)
(***************************************************************************)
MkdirStep(p) == [op |-> "mkdir", path |-> p]
CopyStep(src, dst) == [op |-> "copy", src |-> src, dst |-> dst]
CopyfileStep(src, dst) == [op |-> "copyfile", src |-> src, dst |-> dst]
SplitStep(src) == [op |-> "split", src |-> src]

\* export_darwin, lines 58-76.  Line 70 splits the GUI's path and line 71
\* capitalizes its base name; line 74 copies the file of that name.
DarwinBundle(root) == join(root, "Obliteration.app")
DarwinContents(root) == join(DarwinBundle(root), "Contents")
DarwinMacOS(root) == join(DarwinContents(root), "MacOS")
DarwinResources(root) == join(DarwinContents(root), "Resources")
DarwinGuiName(g) == capitalize(basename(Val(g.executable)))

export_darwin_steps(root, k, g) ==
  << MkdirStep(DarwinBundle(root)),
     MkdirStep(DarwinContents(root)),
     MkdirStep(DarwinMacOS(root)),
     MkdirStep(DarwinResources(root)),
     SplitStep(g.executable) >>
  \o (IF g.executable = None THEN <<>>
      ELSE << CopyStep(k.executable, DarwinResources(root)),
              CopyStep(Some(join(dirname(Val(g.executable)), DarwinGuiName(g))),
                       DarwinMacOS(root)),
              CopyfileStep(<<"bundle.icns">>,
                           join(DarwinResources(root), "obliteration.icns")),
              CopyStep(Some(<<"Info.plist">>), DarwinContents(root)) >>)

\* Line 81.
export_darwin_path(root, g) == join(DarwinMacOS(root), DarwinGuiName(g))

\* export_linux, lines 84-93 and 95-98.
export_linux_steps(root, k, g) ==
  << MkdirStep(join(root, "bin")),
     MkdirStep(join(root, "share")),
     CopyStep(k.executable, join(root, "share")),
     CopyStep(g.executable, join(root, "bin")) >>

export_linux_path(root, g) ==
  join(join(root, "bin"), basename(Val(g.executable)))

\* export_windows, lines 101-108 and 110-113.
export_windows_steps(root, k, g) ==
  << MkdirStep(join(root, "share")),
     CopyStep(k.executable, join(root, "share")),
     CopyStep(g.executable, root) >>

export_windows_path(root, g) == join(root, basename(Val(g.executable)))

(***************************************************************************)
(* main(), lines 168-179: the exporter of the host OS.                     *)
(***************************************************************************)
AtExport == Running /\ pc = "export"
Snapshot == Some([fs |-> fs, kern |-> Val(kern), gui |-> Val(gui)])

ExportDarwin ==
  /\ AtExport /\ system = "Darwin"
  /\ before' = Snapshot
  /\ LET r == RunSteps(fs, export_darwin_steps(Val(dest), Val(kern), Val(gui))) IN
     /\ fs' = r.fs
     /\ IF r.ok THEN pc' = "codesign" /\ UNCHANGED exitCode
                ELSE Raise /\ UNCHANGED pc
  /\ UNCHANGED << hostVars, stderr, launched, running, m, kern, gui, dest, signed,
                  cargoVars >>

\* Line 79 runs an external command on the bundle.  The script does not say
\* what the command writes; it is handed the bundle, so what it writes is in
\* the bundle.  The outcomes kept: the bundle left as it is, and a signature
\* put into it (the seal of the resources added under Contents, the
\* executable of Contents/MacOS written anew), whatever status the command
\* then returns.
SignedBinary(content) ==
  IF content = "stale gui binary" THEN "signed stale gui binary" ELSE "signed gui binary"
Sealed(f, bundle) ==
  LET contents == join(bundle, "Contents")
      seal == join(contents, "_CodeSignature")
      resources == join(seal, "CodeResources")
  IN  [q \in DOMAIN f \cup {seal, resources} |->
         IF q = seal THEN Dir
         ELSE IF q = resources THEN "resource seal"
         ELSE IF Under(join(contents, "MacOS"), q) THEN SignedBinary(f[q])
         ELSE f[q]]
codesign(f, bundle) == {f, Sealed(f, bundle)}

\* export_darwin, lines 78-81, and the assignment of line 172.  run raises
\* FileNotFoundError when codesign cannot be executed (no child is started
\* then), and check=True raises when the child fails.
CodeSign ==
  /\ Running /\ pc = "codesign"
  /\ \E started \in BOOLEAN :
       IF started
       THEN \E returncode \in {0, 1}, written \in codesign(fs, DarwinBundle(Val(dest))) :
              /\ launched' = Append(launched,
                   Ran("codesign", <<"codesign", "-s", "-", "--entitlements",
                                     "entitlements.plist", DarwinBundle(Val(dest))>>,
                       returncode))
              /\ fs' = written
              /\ IF returncode = 0
                 THEN /\ signed' = TRUE
                      /\ gui' = Some(export_darwin_path(Val(dest), Val(gui)))
                      /\ pc' = "startvmm"
                      /\ UNCHANGED exitCode
                 ELSE /\ Raise
                      /\ UNCHANGED << signed, gui, pc >>
       ELSE /\ Raise
            /\ UNCHANGED << fs, launched, signed, gui, pc >>
  /\ UNCHANGED << hostVars, stderr, running, m, kern, dest, before, cargoVars >>

\* Lines 173-174 and export_linux.
ExportLinux ==
  /\ AtExport /\ system = "Linux"
  /\ before' = Snapshot
  /\ LET r == RunSteps(fs, export_linux_steps(Val(dest), Val(kern), Val(gui))) IN
     /\ fs' = r.fs
     /\ IF r.ok
        THEN /\ gui' = Some(export_linux_path(Val(dest), Val(gui)))
             /\ pc' = "startvmm"
             /\ UNCHANGED exitCode
        ELSE Raise /\ UNCHANGED << gui, pc >>
  /\ UNCHANGED << hostVars, stderr, launched, running, m, kern, dest, signed,
                  cargoVars >>

ExportWindows ==
  /\ AtExport /\ system = "Windows"
  /\ before' = Snapshot
  /\ LET r == RunSteps(fs, export_windows_steps(Val(dest), Val(kern), Val(gui))) IN
     /\ fs' = r.fs
     /\ IF r.ok
        THEN /\ gui' = Some(export_windows_path(Val(dest), Val(gui)))
             /\ pc' = "startvmm"
             /\ UNCHANGED exitCode
        ELSE Raise /\ UNCHANGED << gui, pc >>
  /\ UNCHANGED << hostVars, stderr, launched, running, m, kern, dest, signed,
                  cargoVars >>

\* The message printed and the exit forgotten: main() goes on.
UnsupportedOS_NoExit ==
  /\ AtExport /\ system \notin {"Darwin", "Linux", "Windows"}
  /\ stderr' = Append(stderr, <<"OS", system, "is not supported.">>)
  /\ pc' = "startvmm"
  /\ UNCHANGED << hostVars, fs, exitCode, launched, running, mainVars, cargoVars >>

\* Lines 177-179.
UnsupportedOS ==
  /\ AtExport /\ system \notin {"Darwin", "Linux", "Windows"}
  /\ stderr' = Append(stderr, <<"OS", system, "is not supported.">>)
  /\ Exit(1)
  /\ UNCHANGED << hostVars, fs, pc, launched, running, mainVars, cargoVars >>

(***************************************************************************)
(* main(), lines 181-187: the exported GUI is started on request.          *)
(* check=True raises CalledProcessError when the child's status is not 0.  *)
(***************************************************************************)
ChildStatuses == {0, 3}

NoDebug ==
  /\ Running /\ pc = "startvmm"
  /\ args.debug = None
  /\ Exit(0)
  /\ UNCHANGED << hostVars, fs, pc, stderr, launched, running, mainVars, cargoVars >>

\* The executable of the build started, not the exported one.
StartVmm_Original ==
  /\ Running /\ pc = "startvmm"
  /\ args.debug # None
  /\ \E returncode \in ChildStatuses :
       /\ launched' = Append(launched,
            [kind |-> "gui", exe |-> Val(Val(before).gui.executable),
             argv |-> <<"--debug", Val(args.debug)>>,
             returncode |-> Some(returncode)])
       /\ IF returncode = 0 THEN Exit(0) ELSE Raise
  /\ UNCHANGED << hostVars, fs, pc, stderr, running, mainVars, cargoVars >>

\* Line 187.
StartVmm ==
  /\ Running /\ pc = "startvmm"
  /\ args.debug # None
  /\ \E returncode \in ChildStatuses :
       /\ launched' = Append(launched,
            [kind |-> "gui", exe |-> Val(gui), argv |-> <<"--debug", Val(args.debug)>>,
             returncode |-> Some(returncode)])
       /\ IF returncode = 0 THEN Exit(0) ELSE Raise
  /\ UNCHANGED << hostVars, fs, pc, stderr, running, mainVars, cargoVars >>

(***************************************************************************)
(* The script, and cargo() on its own.                                     *)
(***************************************************************************)
Next ==
  \/ DetectArch
  \/ QueryPkgId
  \/ StartBuild
  \/ CargoBuild
  \/ ReadGarbage
  \/ ReadFinished
  \/ ReadArtifact
  \/ ReadOther
  \/ EndOfStream
  \/ Wait
  \/ Return
  \/ UseRoot
  \/ RemoveDist
  \/ MakeDist
  \/ ExportDarwin
  \/ CodeSign
  \/ ExportLinux
  \/ ExportWindows
  \/ UnsupportedOS
  \/ NoDebug
  \/ StartVmm

Spec == Init /\ [][Next]_vars

\* cargo() alone, on Linux and on Windows, in a fresh checkout: the builds
\* of main() with longer outputs.
InitCargo ==
  /\ system \in {"Linux", "Windows"}
  /\ caseSensitive = (system # "Windows")
  /\ checkout \in Checkouts
  /\ args = [release |-> FALSE, root |-> None, debug |-> None]
  /\ fs0 = Workspace
  /\ cap = MaxStream
  /\ InitRun

NextCargo ==
  \/ DetectArch
  \/ QueryPkgId
  \/ StartBuild
  \/ CargoBuild
  \/ ReadGarbage
  \/ ReadFinished
  \/ ReadArtifact
  \/ ReadOther
  \/ EndOfStream
  \/ Wait
  \/ Return

SpecCargo == InitCargo /\ [][NextCargo]_vars

(***************************************************************************)
(* Properties of cargo()'s reading of the build output.                    *)
(***************************************************************************)
Last(seq) == seq[Len(seq)]
IsArtifact(line) == Parses(line) /\ line.reason = "compiler-artifact"
IsFinished(line) == Parses(line) /\ line.reason = "build-finished"
\* The places of the artifacts of package ident in a stream.
Matching(stream, ident) ==
  {i \in 1..Len(stream) : IsArtifact(stream[i]) /\ stream[i].package_id = ident}
Foreign(stream, ident) ==
  {i \in 1..Len(stream) : IsArtifact(stream[i]) /\ stream[i].package_id # ident}
Ignored(stream) ==
  {i \in 1..Len(stream) : ~IsArtifact(stream[i]) /\ ~IsFinished(stream[i])}
EndsWithSuccess(stream) ==
  stream # <<>> /\ IsFinished(Last(stream)) /\ Last(stream).success
FinishedAt(stream) == {i \in 1..Len(stream) : IsFinished(stream[i])}
FirstFinished(stream) ==
  stream[CHOOSE i \in FinishedAt(stream) : \A j \in FinishedAt(stream) : i <= j]

InCargo == req # None
\* What main() holds of the call in progress: nothing until cargo() returns.
Held == IF Val(req).package = "obkrnl" THEN kern ELSE gui

\* The stream of C1: one artifact of the requested package among artifacts
\* of other packages and other records, then build-finished success.
OneMatchThenSuccess ==
  /\ InCargo /\ Running /\ pc = "return"
  /\ EndsWithSuccess(consumed)
  /\ Cardinality(Matching(consumed, Val(id))) = 1

\* C1: when the stream read holds exactly one compiler-artifact of the
\* requested package, any number of other records in any order, and ends
\* with build-finished success, cargo() returns that one record to main().
C1_ReturnsTheMatchingRecord ==
  [][ OneMatchThenSuccess =>
        /\ exitCode' = None
        /\ (IF Val(req).package = "obkrnl" THEN kern' ELSE gui')
             = Some(consumed[CHOOSE i \in Matching(consumed, Val(id)) : TRUE]) ]_vars

\* A stream of C1 with noise on both sides of the matching record.
C1_Witness ==
  /\ OneMatchThenSuccess
  /\ \E i \in Matching(consumed, Val(id)) :
       /\ \E j \in Foreign(consumed, Val(id)) \cup Ignored(consumed) : j < i
       /\ \E j \in Foreign(consumed, Val(id)) \cup Ignored(consumed) : j > i
  /\ Foreign(consumed, Val(id)) # {}

\* The first build-finished record read in the call in progress says
\* success=false.
FailureRead ==
  InCargo /\ FinishedAt(consumed) # {} /\ ~FirstFinished(consumed).success

\* C2: when the first build-finished record read says success=false, the
\* loop was left by sys.exit(1), whatever was read before: main() holds no
\* artifact of that build, and the script does nothing more than end with
\* status 1 (the child may write to its build directory until then).
C2_FailureIsFatal ==
  /\ [](FailureRead =>
          /\ pc = "unwind" /\ Held = None
          /\ exitCode \in {None, Some(1)})
  /\ [][ (FailureRead /\ Running) =>
           \/ exitCode' = Some(1)
           \/ UNCHANGED << pc, exitCode, stderr, launched, running, mainVars, cargoVars >> ]_vars

\* A failed build after two artifacts of the requested package.
C2_Witness ==
  /\ InCargo /\ exitCode = Some(1) /\ pc = "unwind"
  /\ consumed # <<>> /\ Last(consumed) = Finished(FALSE)
  /\ Cardinality(Matching(consumed, Val(id))) >= 2

\* C3: the artifact cargo() has captured carries the package id queried
\* for the call, and the artifacts main() got back carry the ids of the
\* packages it asked for.
GuiArtifact == IF before # None THEN Some(Val(before).gui) ELSE gui
C3_ArtifactOfRequestedPackage ==
  /\ artifact # None => (id # None /\ Val(artifact).package_id = Val(id))
  /\ kern # None => Val(kern).package_id = PkgId("obkrnl")
  /\ GuiArtifact # None => Val(GuiArtifact).package_id = PkgId("gui")

\* The GUI build captured its artifact and then read one of the kernel.
C3_Witness ==
  /\ InCargo /\ Val(req).package = "gui" /\ artifact # None /\ kern # None
  /\ \E i \in Matching(consumed, Val(id)) :
       \E j \in Foreign(consumed, Val(id)) : i < j

\* The state of C4: build-finished success was read and no artifact of the
\* requested package before it.
SuccessWithoutArtifact ==
  /\ InCargo /\ pc \in {"leave", "return"}
  /\ EndsWithSuccess(consumed)
  /\ Matching(consumed, Val(id)) = {}

\* C4: from there the script exits with status 1 at line 55, no artifact
\* reaches main(), the script writes nothing and starts no process: no
\* exporter has run and no GUI was launched.
C4_SuccessWithoutArtifactIsFatal ==
  /\ [](SuccessWithoutArtifact =>
          /\ before = None
          /\ \A i \in 1..Len(launched) : launched[i].kind # "gui")
  /\ [][ (SuccessWithoutArtifact /\ Running) =>
            /\ pc' \in {pc, "return"}
            /\ pc = "return" => (exitCode' = Some(1) /\ fs' = fs)
            /\ pc = "leave" => exitCode' = None
            /\ kern' = kern /\ gui' = gui
            /\ launched' = launched /\ before' = None ]_vars

\* The script has ended there, after an artifact of another package.
C4_Witness ==
  /\ SuccessWithoutArtifact /\ exitCode = Some(1)
  /\ Foreign(consumed, Val(id)) # {}

(***************************************************************************)
(* Properties of the export and of main().                                 *)
(***************************************************************************)
Kind(content) == IF content = Dir THEN "dir" ELSE "file"
\* The entries below directory d: the path from d, and directory or file.
Tree(f, d) ==
  { <<SubSeq(k, Len(d) + 1, Len(k)), Kind(f[k])>> : k \in {q \in DOMAIN f : Under(d, q)} }

\* The layout table of the three bundles, for a GUI executable stored under
\* the name g and a kernel stored under the name k.
Layout(os, g, k) ==
  CASE os = "Darwin" ->
         { << <<"Obliteration.app">>, "dir" >>,
           << <<"Obliteration.app", "Contents">>, "dir" >>,
           << <<"Obliteration.app", "Contents", "MacOS">>, "dir" >>,
           << <<"Obliteration.app", "Contents", "Resources">>, "dir" >>,
           << <<"Obliteration.app", "Contents", "MacOS", g>>, "file" >>,
           << <<"Obliteration.app", "Contents", "Resources", k>>, "file" >>,
           << <<"Obliteration.app", "Contents", "Resources", "obliteration.icns">>, "file" >>,
           << <<"Obliteration.app", "Contents", "Info.plist">>, "file" >> }
    [] os = "Linux" ->
         { << <<"bin">>, "dir" >>, << <<"share">>, "dir" >>,
           << <<"bin", g>>, "file" >>, << <<"share", k>>, "file" >> }
    [] os = "Windows" ->
         { << <<g>>, "file" >>, << <<"share">>, "dir" >>, << <<"share", k>>, "file" >> }

\* The exporter has returned (for Darwin: after the signing).
Exported == pc = "startvmm"
ExportStarted == before # None
\* The exporter started on an existing, empty output directory.
EmptyAtExport ==
  /\ ExportStarted
  /\ isdir(Val(before).fs, Val(dest))
  /\ Tree(Val(before).fs, Val(dest)) = {}
KernName == basename(Val(Val(before).kern.executable))
GuiName == basename(Val(Val(before).gui.executable))
\* The names the bundle may give the GUI executable: its base name, and on
\* Darwin that name in any case of its letters.
GuiNames ==
  IF system = "Darwin"
  THEN {n \in Names : foldChars(Spell[n]) = foldChars(Spell[GuiName])}
  ELSE {GuiName}

\* Where the bundle of the host keeps the GUI executable, stored under the
\* name g, and the kernel.
GuiEntry(os, g) ==
  CASE os = "Darwin" -> <<"Obliteration.app", "Contents", "MacOS", g>>
    [] os = "Linux" -> <<"bin", g>>
    [] os = "Windows" -> <<g>>
KernEntry(os) ==
  CASE os = "Darwin" -> <<"Obliteration.app", "Contents", "Resources", KernName>>
    [] os = "Linux" -> <<"share", KernName>>
    [] os = "Windows" -> <<"share", KernName>>
\* In file system f the output directory holds exactly the directories and
\* files of the host's layout table, the GUI's entry being the file of the
\* GUI artifact and the kernel's the file of the kernel artifact.
Bundled(f) ==
  \E g \in GuiNames :
    /\ Tree(f, Val(dest)) = Layout(system, g, KernName)
    /\ Content(f, Val(dest) \o GuiEntry(system, g))
         = Content(Val(before).fs, Val(Val(before).gui.executable))
    /\ Content(f, Val(dest) \o KernEntry(system))
         = Content(Val(before).fs, Val(Val(before).kern.executable))

\* C5: a successful export into an existing empty output directory leaves
\* there exactly the directories and files of the host's layout table, with
\* the GUI executable and the kernel at their places, and no other entry.
\* On Darwin this is said of what lines 64-76 made, as the signing command
\* that then succeeds finds it.
C5_ExportLayout ==
  /\ []((Exported /\ system # "Darwin" /\ EmptyAtExport) => Bundled(fs))
  /\ [][ (system = "Darwin" /\ pc = "codesign" /\ pc' = "startvmm" /\ EmptyAtExport)
           => Bundled(fs) ]_vars

\* C6: the path an exporter returned lies under the output directory,
\* names a file there, is not the artifact's own path, and the file is a
\* copy of the file at the GUI artifact's executable path (on Darwin the
\* copy as it was made, or as the signing command wrote it anew).
C6_LaunchPathIsCopyOfGui ==
  Exported =>
    LET original == Val(Val(before).gui.executable) IN
    /\ Under(Val(dest), Val(gui))
    /\ isfile(fs, Val(gui))
    /\ ~SamePath(Val(gui), original)
    /\ Content(fs, Val(gui))
         \in {Content(fs, original), SignedBinary(Content(fs, original))}

\* C7: after the GUI was launched for debugging, the script's exit status
\* is the GUI's.
Launches == {i \in 1..Len(launched) : launched[i].kind = "gui"}
C7_DebugStatusPropagated ==
  (exitCode # None /\ Launches # {})
    => \A i \in Launches : exitCode = launched[i].returncode

\* C8: without --root, dist is gone once line 164 has run, and it is an
\* empty directory when the exporter starts; nothing that was in it before
\* the run is in it afterwards.
DistGone == Entry(fs, Dist) = {} /\ Tree(fs, Dist) = {}
DistEmpty(f) == isdir(f, Dist) /\ Tree(f, Dist) = {}
OldFiles(f) == {k \in DOMAIN f : Under(Dist, k) /\ f[k] = "old file"}
C8_FreshDist ==
  args.root = None =>
    /\ (pc = "mkdir" /\ Running) => DistGone
    /\ (pc = "export" /\ ~ExportStarted) => DistEmpty(fs)
    /\ ExportStarted => DistEmpty(Val(before).fs)
    /\ pc \in {"export", "codesign", "startvmm"} => OldFiles(fs) = {}

\* A run on a dist with leftovers has reached the exporter.
C8_Witness ==
  /\ args.root = None /\ pc = "export" /\ Running
  /\ OldFiles(fs0) # {}
  /\ Entry(fs0, <<"dist", "share">>) # {}

\* C9: when the script has ended, the output directory holds the whole
\* bundle of the host or nothing the exporter made.
Made ==
  IF ExportStarted
  THEN {k \in DOMAIN fs : Under(Val(dest), k) /\ k \notin DOMAIN Val(before).fs}
  ELSE {}
BundleComplete ==
  /\ ExportStarted
  /\ system \in {"Darwin", "Linux", "Windows"}
  /\ Val(before).kern.executable # None /\ Val(before).gui.executable # None
  /\ \E g \in GuiNames : Layout(system, g, KernName) \subseteq Tree(fs, Val(dest))
C9_AllOrNothing == exitCode # None => (BundleComplete \/ Made = {})

\* C10: on a machine that is none of aarch64, arm64, x86_64 and AMD64 the
\* script has exited with status 1 at the architecture test, no process
\* was started and the file system is as it was.
C10_UnsupportedArch ==
  (m # None /\ Val(m) \notin {"aarch64", "arm64", "x86_64", "AMD64"})
    => /\ exitCode = Some(1)
       /\ pc = "main"
       /\ launched = <<>> /\ running = {}
       /\ fs = fs0

\* The exit on riscv64, beside a dist that holds leftovers.
C10_Witness ==
  /\ m = Some("riscv64") /\ exitCode = Some(1)
  /\ OldFiles(fs0) # {}

\* C11 as stated: on a host whose OS is none of Darwin, Linux and Windows
\* no exporter starts, nothing is signed or launched, and the script ends
\* at the OS test with status 1; all the run did to the disk (the
\* toolchain's build directory aside) is to create the output directory.
SupportedOS == system \in {"Darwin", "Linux", "Windows"}
\* The file systems f and g differ in nothing but what the toolchain built
\* in its directory.
InBuildDir(k) == k # <<>> /\ k[1] = BuildDir[1]
SameButBuilt(f, g) ==
  \/ f = g
  \/ /\ \A k \in DOMAIN f : ~InBuildDir(k) => (k \in DOMAIN g /\ g[k] = f[k])
     /\ \A k \in DOMAIN g : ~InBuildDir(k) => k \in DOMAIN f
CreatedByRun == {k \in DOMAIN fs : k \notin DOMAIN fs0 /\ ~InBuildDir(k)}
OutsideUnchanged(f, g, d) ==
  /\ \A k \in DOMAIN f : (~Under(d, k) /\ ~SamePath(d, k)) => (k \in DOMAIN g /\ g[k] = f[k])
  /\ \A k \in DOMAIN g : (~Under(d, k) /\ ~SamePath(d, k)) => k \in DOMAIN f
NothingExported ==
  /\ pc \notin {"codesign", "startvmm"}
  /\ before = None
  /\ \A i \in 1..Len(launched) : launched[i].kind \notin {"codesign", "gui"}
  /\ exitCode # Some(0)
  /\ (pc = "export" /\ exitCode # None) =>
       /\ exitCode = Some(1)
       /\ Last(stderr) = <<"OS", system, "is not supported.">>
C11_OnlyOutputRootCreated ==
  ~SupportedOS =>
    /\ NothingExported
    /\ pc = "export" =>
         /\ CreatedByRun \subseteq {Val(dest)}
         /\ \A k \in DOMAIN fs0 : ~InBuildDir(k) => (k \in DOMAIN fs /\ fs[k] = fs0[k])

\* C11, amended: on such a host no exporter starts, nothing is signed or
\* launched, and the script ends at the OS test with status 1.  By then
\* the output directory has been prepared: without --root dist is an empty
\* directory, whatever an old dist held having been deleted; a directory
\* given with --root and all below it is as it was.  Nothing else outside
\* the toolchain's build directory was created, changed or deleted.
C11_UnsupportedOS ==
  ~SupportedOS =>
    /\ NothingExported
    /\ pc = "export" =>
         /\ CreatedByRun \subseteq {Val(dest)}
         /\ IF args.root = None
            THEN DistEmpty(fs)
            ELSE /\ Entry(fs, Val(dest)) = Entry(fs0, Val(dest))
                 /\ \A k \in DOMAIN fs0 :
                      Under(Val(dest), k) => (k \in DOMAIN fs /\ fs[k] = fs0[k])
                 /\ \A k \in DOMAIN fs : Under(Val(dest), k) => k \in DOMAIN fs0
         /\ \A k \in DOMAIN fs0 :
              (~InBuildDir(k) /\ ~Under(Val(dest), k) /\ ~SamePath(Val(dest), k))
                => (k \in DOMAIN fs /\ fs[k] = fs0[k])

\* The exit on FreeBSD after both builds, dist having been made anew.
C11_Witness ==
  /\ system = "FreeBSD" /\ pc = "export" /\ exitCode = Some(1)
  /\ args.root = None /\ OldFiles(fs0) # {} /\ isdir(fs, Dist)

(***************************************************************************)
(* Properties of the package path, the order of the steps and the child    *)
(* processes.                                                              *)
(***************************************************************************)
\* The directory of the package being built, below the checkout.
PackageDir ==
  IF Val(req).package = "obkrnl"
  THEN <<"/","k","e","r","n","e","l">>
  ELSE <<"/","g","u","i">>
\* The build child of the call in progress has been started.
BuildStarted == InCargo /\ pc = "read"
\* On Windows a package id of a checkout on drive C: gives C:/src/<package>.
DriveLetterResolved ==
  (BuildStarted /\ system = "Windows" /\ checkout \in {DriveCheckout, OldDriveCheckout})
    => Last(launched).cwd = <<"C",":","/","s","r","c">> \o PackageDir
\* Elsewhere a package id with a host gives the host followed by the path.
HostAndPathResolved ==
  (BuildStarted /\ system # "Windows" /\ checkout = HostCheckout)
    => Last(launched).cwd = <<"h","o","s","t","/","s","r","c">> \o PackageDir

\* C12: the build child's directory is C:/src/<package> for a drive-letter
\* package id on Windows (the leading / removed and nothing else) and, for
\* a package id with a host part on another system, the host part followed
\* by the path part.
C12_PackagePathResolution == DriveLetterResolved /\ HostAndPathResolved

\* The step of the pipeline the script is at: 1 the kernel build, 2 the GUI
\* build, 3 the output directory, 4 the export, 5 the launch.
StepOf ==
  CASE pc = "main" -> 0
    [] pc \in {"pkgid", "popen", "read", "leave", "unwind", "return"} ->
         IF Val(req).package = "obkrnl" THEN 1 ELSE 2
    [] pc \in {"mkroot", "mkdir"} -> 3
    [] pc \in {"export", "codesign"} -> 4
    [] pc = "startvmm" -> 5
\* The children of one kind, and the builds of one package.
Children(kind) == {i \in 1..Len(launched) : launched[i].kind = kind}
ArgPairs(argv) == {<<argv[j], argv[j + 1]>> : j \in 1..(Len(argv) - 1)}
BuildsOf(package) ==
  {i \in Children("build") : <<"-p", package>> \in ArgPairs(launched[i].argv)}
QueriesOf(package) ==
  {i \in Children("pkgid") : <<"-p", package>> \in ArgPairs(launched[i].argv)}
\* The exporters whose first directory was made: export_darwin begins with
\* Obliteration.app, export_linux with bin, export_windows with share.
MadeNames == {SubSeq(k, Len(Val(dest)) + 1, Len(k)) : k \in Made}
RanExporters ==
  {os \in {"Darwin", "Linux", "Windows"} :
     CASE os = "Darwin" -> <<"Obliteration.app">> \in MadeNames
       [] os = "Linux" -> <<"bin">> \in MadeNames
       [] os = "Windows" -> <<"share">> \in MadeNames /\ <<"bin">> \notin MadeNames}
InOrder ==
  /\ \A package \in {"obkrnl", "gui"} :
       /\ Cardinality(QueriesOf(package)) <= 1
       /\ Cardinality(BuildsOf(package)) <= 1
       /\ \A i \in QueriesOf(package) : \A j \in BuildsOf(package) : i < j
  /\ Cardinality(Children("codesign")) <= 1
  /\ Cardinality(Children("gui")) <= 1
  \* the GUI build after the kernel build has returned its artifact
  /\ QueriesOf("gui") # {} =>
       /\ kern # None /\ BuildsOf("obkrnl") # {}
       /\ \A i \in BuildsOf("obkrnl") : \A j \in QueriesOf("gui") : i < j
  \* the output directory after both builds have returned
  /\ (kern = None \/ GuiArtifact = None \/ BuildsOf("gui") = {}) =>
       (dest = None /\ SameButBuilt(fs, fs0))
  \* one exporter, of the host, on a prepared output directory
  /\ ExportStarted =>
       /\ dest # None
       /\ args.root = None => DistEmpty(Val(before).fs)
       /\ RanExporters \subseteq {system}
  /\ Exported => (ExportStarted /\ RanExporters = {system})
  /\ Children("codesign") # {} =>
       /\ system = "Darwin" /\ ExportStarted
       /\ \A i \in Children("codesign") : \A j \in BuildsOf("gui") : j < i
  \* the launch after the exporter has returned
  /\ Children("gui") # {} =>
       /\ Exported
       /\ system = "Darwin" => signed
       /\ \A i \in Children("gui") : i = Len(launched)

\* C13: the steps kernel build, GUI build, output directory, export and
\* launch are taken in this order, one after the other and none twice; a
\* step starts only after the steps before it have succeeded (a build: its
\* output ended with build-finished success), and the one exporter that
\* runs is the host's.
C13_LinearPipeline ==
  /\ []InOrder
  /\ [][ /\ StepOf' \in {StepOf, StepOf + 1}
         /\ (StepOf \in {1, 2} /\ StepOf' = StepOf + 1) => EndsWithSuccess(consumed)
         /\ before # None => before' = before
         /\ dest # None => dest' = dest
         /\ kern # None => kern' = kern
         /\ exitCode # None => UNCHANGED vars ]_vars

(***************************************************************************)
(* More properties of cargo()'s reading of the build output.               *)
(***************************************************************************)
\* The last place of a non-empty set of places.
Latest(places) == CHOOSE i \in places : \A j \in places : j <= i
\* The stream of C14: several artifacts of the requested package, not all
\* the same record, then build-finished success.
SeveralMatchesThenSuccess ==
  /\ InCargo /\ Running /\ pc = "return"
  /\ EndsWithSuccess(consumed)
  /\ Cardinality(Matching(consumed, Val(id))) >= 2

\* C14: when the stream read holds several compiler-artifact records of the
\* requested package before build-finished success, cargo() returns the
\* last of them in the order of the stream; while reading, the captured
\* artifact is the last matching record read so far.
C14_LastMatchingWins ==
  /\ [](artifact # None =>
          /\ Matching(consumed, Val(id)) # {}
          /\ artifact = Some(consumed[Latest(Matching(consumed, Val(id)))]))
  /\ [][ SeveralMatchesThenSuccess =>
           /\ exitCode' = None
           /\ (IF Val(req).package = "obkrnl" THEN kern' ELSE gui')
                = Some(consumed[Latest(Matching(consumed, Val(id)))]) ]_vars

\* Two different records of the package were read, the last of them being
\* followed by an artifact of another package.
C14_Witness ==
  /\ SeveralMatchesThenSuccess
  /\ \E i, j \in Matching(consumed, Val(id)) : consumed[i] # consumed[j]
  /\ \E j \in Foreign(consumed, Val(id)) : j > Latest(Matching(consumed, Val(id)))

\* A build-finished success has been read in the call in progress.
SuccessRead ==
  InCargo /\ \E i \in FinishedAt(consumed) : consumed[i].success

\* C15: a build-finished success is the last record cargo() reads: the
\* script leaves the loop for line 55, what the child writes afterwards is
\* never read, and the call returns the artifact captured up to that record
\* (or fails for want of one) whatever the child goes on to write.
C15_StopAtFirstSuccess ==
  /\ [](SuccessRead =>
          /\ EndsWithSuccess(consumed)
          /\ Cardinality(FinishedAt(consumed)) = 1
          /\ pc \in {"leave", "return"})
  /\ [][ (SuccessRead /\ Running) =>
           /\ ~SuccessRead'
                => /\ pc = "return"
                   /\ exitCode' = None
                   /\ artifact # None
                   /\ (IF Val(req).package = "obkrnl" THEN kern' ELSE gui') = artifact
           /\ SuccessRead'
                => /\ consumed' = consumed /\ artifact' = artifact
                   /\ pc = "leave" => exitCode' = None
                   /\ pc = "return" => (exitCode' = Some(1) /\ artifact = None) ]_vars

\* The GUI build's success was read while the child, still there, could
\* write more (the output is shorter than the longest one), with an
\* artifact captured.
C15_Witness ==
  /\ InCargo /\ Val(req).package = "gui" /\ kern # None
  /\ SuccessRead /\ Len(consumed) < cap
  /\ artifact # None /\ Running /\ running # {}

\* cargo() hands an artifact to main() in this step.
Returning ==
  /\ InCargo /\ pc = "return"
  /\ (IF Val(req).package = "obkrnl" THEN kern' # kern ELSE gui' # gui)

\* C16: cargo() returns an artifact only after it has read a build-finished
\* success in the output of that call; an output that ends without one
\* gives main() no artifact, and so no export.
C16_ReturnOnlyAfterTerminalEvent ==
  [][ Returning => EndsWithSuccess(consumed) ]_vars

\* C17: at most one child process is alive at any time: a child started
\* with Popen lives only while cargo() is in its with block (reading, or
\* having left the loop by break, at the end of the output or by an error,
\* until the block has waited for it), and none is alive when the script
\* starts another child (a package-id query, a build, codesign or the GUI),
\* is at line 55 or has ended.
C17_NoOverlappingChildren ==
  /\ [](/\ Cardinality(running) <= 1
        /\ running # {} =>
             /\ pc \in {"read", "leave", "unwind"} /\ Running
             /\ running = {Len(launched)}
        /\ running \subseteq Children("build"))
  /\ [][ Len(launched') > Len(launched) => running = {} ]_vars

\* The kernel's output was abandoned at build-finished success with an
\* artifact captured; its child is alive still, and the GUI's package-id
\* query has not been started.
C17_Witness ==
  /\ InCargo /\ Val(req).package = "obkrnl" /\ pc = "leave" /\ Running
  /\ EndsWithSuccess(consumed) /\ artifact # None
  /\ running = {Len(launched)} /\ QueriesOf("gui") = {}

(***************************************************************************)
(* More properties of main().                                              *)
(***************************************************************************)
\* The path of the GUI in the bundle of the host, from the layout.
BundledGui ==
  Val(dest) \o
    (CASE system = "Darwin" -> <<"Obliteration.app", "Contents", "MacOS", "Obliteration">>
       [] system = "Linux" -> <<"bin", GuiName>>
       [] system = "Windows" -> <<GuiName>>)

\* C18: the exported GUI is launched exactly when --debug was given and the
\* exporter returned: once, as <path the exporter returned> --debug <address>;
\* without --debug the script ends with status 0 after the export and
\* launches nothing.
LaunchedOnRequest ==
  /\ \A i \in Children("gui") :
       /\ args.debug # None /\ Exported
       /\ launched[i].exe = BundledGui
       /\ launched[i].argv = <<"--debug", Val(args.debug)>>
  /\ Cardinality(Children("gui")) <= 1
  /\ exitCode # None =>
       (Children("gui") # {} <=> (args.debug # None /\ Exported))
  /\ (Exported /\ args.debug = None /\ exitCode # None) => exitCode = Some(0)
C18_RelaunchOnlyOnRequest ==
  /\ []LaunchedOnRequest
  /\ [][ (Exported /\ Running /\ args.debug = None) =>
           /\ exitCode' = Some(0)
           /\ launched' = launched /\ fs' = fs ]_vars

\* The GUI exported on Windows was launched and returned 0; dist was made
\* by this run.
C18_Witness ==
  /\ system = "Windows" /\ args.root = None /\ args.debug = Some(DebugAddr)
  /\ Children("gui") # {} /\ exitCode = Some(0)
  /\ launched[Len(launched)].exe = <<"dist", "obliteration">>

\* C19: once an exporter has started, whether it returned or raised, the
\* kernel's and the GUI's executables are files at the paths their
\* artifacts name, with the content they had, and every path outside the
\* output directory is as it was when the exporter started.
C19_CopyNeverMove ==
  ExportStarted =>
    /\ \A a \in {Val(before).kern, Val(before).gui} :
         a.executable # None =>
           /\ isfile(fs, Val(a.executable))
           /\ Content(fs, Val(a.executable)) = Content(Val(before).fs, Val(a.executable))
    /\ OutsideUnchanged(Val(before).fs, fs, Val(dest))

\* An export on Darwin that raised after its first copies, and both files
\* are in the build directory still.
C19_Witness ==
  /\ ExportStarted /\ system = "Darwin" /\ exitCode = Some(1) /\ pc = "export"
  /\ \E k \in Made : fs[k] # Dir
  /\ isfile(fs, KernExe) /\ isfile(fs, GuiExe)

\* The script ended inside a call of cargo(): at the package-id query, at
\* the start of the build child, at a record of the output or at line 55.
FatalInBuild == InCargo /\ exitCode # None
\* The ways a build ends fatally.
FailedQuery == FatalInBuild /\ pc = "pkgid"
FailedStart == FatalInBuild /\ pc = "popen"
FailureEvent == FatalInBuild /\ pc = "unwind" /\ Last(consumed) = Finished(FALSE)
UnparseableRecord == FatalInBuild /\ pc = "unwind" /\ ~Parses(Last(consumed))
NoArtifact == FatalInBuild /\ pc = "return"

\* C20: while the builds run and when one of them ends fatally the output
\* directory, and every file but those the toolchain built in its own
\* directory, is as it was before the run; the script changes the file
\* system (dist removed and made) only after both builds have returned an
\* artifact.
C20_FailedBuildLeavesOutput ==
  /\ InCargo => SameButBuilt(fs, fs0)
  /\ FatalInBuild =>
       /\ exitCode = Some(1)
       /\ FailedQuery \/ FailedStart \/ FailureEvent \/ UnparseableRecord \/ NoArtifact
       /\ Entry(fs, OutputDir(args)) = Entry(fs0, OutputDir(args))
       /\ \A k \in DOMAIN fs0 : Under(OutputDir(args), k) => (k \in DOMAIN fs /\ fs[k] = fs0[k])
       /\ \A k \in DOMAIN fs : Under(OutputDir(args), k) => k \in DOMAIN fs0
  /\ (kern = None \/ GuiArtifact = None \/ dest = None) => SameButBuilt(fs, fs0)

\* The GUI build failed after the kernel was built, beside a dist that
\* holds the files of an earlier run.
C20_Witness ==
  /\ FailureEvent /\ Val(req).package = "gui" /\ kern # None
  /\ args.root = None /\ OldFiles(fs) # {}

====
